---- MODULE Spec2Model ----
(***************************************************************************)
(* Model of the basket rebalancer's calculation core                       *)
(* (src/utils/portfolio_utils.py).                                         *)
(*                                                                         *)
(* Representation of numbers.  The code computes on pandas float columns.  *)
(* A float cell that may be missing is the one-element tuple <<v>> or the  *)
(* empty tuple NaN.  Arithmetic is exact:                                  *)
(*   - prices, Current Value, Target Value (Actual), Difference are whole  *)
(*     currency units;                                                     *)
(*   - Target Value is held in hundredths of a currency unit, so that      *)
(*     weight / 100.0 * total is exact;                                    *)
(*   - the two rounded weight columns are held in hundredths of a percent  *)
(*     (the two decimals kept by .round(2)).                               *)
(* Integer columns (Shares Held, Target Shares, Shares to Buy/Sell,        *)
(* Target Weight (%)) are plain integers.                                  *)
(***************************************************************************)
EXTENDS Integers, Sequences, FiniteSets, TLC

\* ---------------------------------------------------------------- bounds
MaxRows == 2
MaxCalls == 2
MaxUpdates == 3

\* ------------------------------------------------------ program constants
\* the 100 of "/ 100.0" and "* 100" in the weight and target computations
Hundred == 100

\* -------------------------------------------------------- float encoding
NaN == << >>
F(v) == << v >>
IsNaN(x) == Len(x) = 0
Val(x) == x[1]

\* NaN propagates through * and -, and compares false with everything
FMul(a, b) == IF IsNaN(a) \/ IsNaN(b) THEN NaN ELSE F(Val(a) * Val(b))
FSub(a, b) == IF IsNaN(a) \/ IsNaN(b) THEN NaN ELSE F(Val(a) - Val(b))
FGt0(a) == ~IsNaN(a) /\ Val(a) > 0
FLt0(a) == ~IsNaN(a) /\ Val(a) < 0

Range(s) == { s[i] : i \in DOMAIN s }

\* variant: the quotient truncated instead of rounded
RoundTruncate(n, d) == IF n >= 0 THEN n \div d ELSE -((-n) \div d)

\* round(n / d) to the nearest integer, ties to the even neighbour (d > 0)
RoundHalfEven(n, d) ==
    LET q == n \div d
        r == n % d
    IN  IF 2 * r < d THEN q
        ELSE IF 2 * r > d THEN q + 1
        ELSE IF q % 2 = 0 THEN q ELSE q + 1

\* Series.sum(): missing cells are skipped, the empty sum is 0
RECURSIVE SumSkipNa(_)
SumSkipNa(col) ==
    IF Len(col) = 0 THEN 0
    ELSE (IF IsNaN(Head(col)) THEN 0 ELSE Val(Head(col))) + SumSkipNa(Tail(col))

RECURSIVE SumInt(_)
SumInt(col) == IF Len(col) = 0 THEN 0 ELSE Head(col) + SumInt(Tail(col))

\* round(n / d, 2), in hundredths (d > 0)
Round2(n, d) == RoundHalfEven(n * Hundred, d)

\* (x / total * 100).round(2), in hundredths of a percent (total > 0)
WeightPct(x, total) ==
    IF IsNaN(x) THEN NaN ELSE F(Round2(Val(x) * Hundred, total))

\* ------------------------------------------------------ data frame access
Column(d, c) == [i \in DOMAIN d |-> d[i][c]]

\* df[c] = vals : overwrite the column in place, or append it
SetColumn(d, c, vals) ==
    [i \in DOMAIN d |->
        [k \in (DOMAIN d[i]) \cup {c} |-> IF k = c THEN vals[i] ELSE d[i][k]]]

AddColumnName(cols, c) == IF c \in Range(cols) THEN cols ELSE Append(cols, c)

Min(a, b) == IF a <= b THEN a ELSE b

\* --------------------------------------------------------------- state
VARIABLES
    df,                 \* the holdings table: a sequence of rows, column name -> cell
    columns,            \* df.columns, in order
    ret,                \* last return value of calculate_portfolio_metrics
    calls,              \* calls of calculate_portfolio_metrics on this table
    additional_capital, \* the capital the table was last rebalanced with
    out_columns,        \* columns of the table calculate_rebalancing_metrics returned
    last_call,          \* the function called last, "" before the first call
    raised,             \* the exception the last call raised, "" when it returned
    errors,             \* last return value of validate_portfolio_data
    prices,             \* optimize_shares: argument prices
    target_values,      \* optimize_shares: argument target_values
    shares,             \* optimize_shares: return value
    csv_file,           \* a CSV file: the download, the upload or the save file
    loaded,             \* last return value of read_portfolio_csv
    events,             \* what the last handler invoked and displayed, in order
    price_cache,        \* PortfolioRebalancerApp._price_cache
    fetches,            \* calls of price_service.get_portfolio_prices
    updates             \* calls of update_portfolio_prices

appVars == << csv_file, loaded, events, price_cache, fetches, updates >>

vars == << df, columns, ret, calls, additional_capital, out_columns, last_call,
           raised, errors, prices, target_values, shares, csv_file, loaded,
           events, price_cache, fetches, updates >>

\* ----------------------------------------- calculate_portfolio_metrics
\* variant: an existing Current Value column is compounded, not overwritten
CurrentValue_Compound(d) ==
    [i \in DOMAIN d |->
        IF "Current Value" \in DOMAIN d[i] /\ ~IsNaN(d[i]["Current Value"])
        THEN FMul(d[i]["Current Value"], d[i]["Current Price (per share)"])
        ELSE FMul(F(d[i]["Shares Held"]), d[i]["Current Price (per share)"])]

\* df["Shares Held"] * df["Current Price (per share)"]
CurrentValue(d) ==
    [i \in DOMAIN d |->
        FMul(F(d[i]["Shares Held"]), d[i]["Current Price (per share)"])]

\* variant: no zero guard, 0 / 0 is a missing value
CurrentWeight_Unguarded(cv, total_value) ==
    IF total_value > 0
    THEN [i \in DOMAIN cv |-> WeightPct(cv[i], total_value)]
    ELSE [i \in DOMAIN cv |-> NaN]

\* variant: the fraction of the total, the factor 100 forgotten
CurrentWeight_Fraction(cv, total_value) ==
    IF total_value > 0
    THEN [i \in DOMAIN cv |->
            IF IsNaN(cv[i]) THEN NaN ELSE F(Round2(Val(cv[i]), total_value))]
    ELSE [i \in DOMAIN cv |-> F(0)]

\* the guarded weight column: 0.0 on every row unless total_value > 0
CurrentWeight(cv, total_value) ==
    IF total_value > 0
    THEN [i \in DOMAIN cv |-> WeightPct(cv[i], total_value)]
    ELSE [i \in DOMAIN cv |-> F(0)]

\* the table after the call
MetricsTable(d) ==
    LET cv == CurrentValue(d)
        d1 == SetColumn(d, "Current Value", cv)
    IN  SetColumn(d1, "Current Weight (%)", CurrentWeight(cv, SumSkipNa(cv)))

\* the returned triple (total_value, total_current_weight, total_target_weight);
\* the two weight totals in hundredths of a percent
MetricsReturn(d) ==
    LET e == MetricsTable(d)
    IN  << SumSkipNa(Column(e, "Current Value")),
           Round2(SumSkipNa(Column(e, "Current Weight (%)")), Hundred),
           Round2(SumInt(Column(e, "Target Weight (%)")), 1) >>

\* ------------------------------------------------------ optimize_shares
\* variant: ties rounded away from zero
RoundHalfAway(n, d) ==
    LET q == n \div d
        r == n % d
    IN  IF 2 * r < d THEN q
        ELSE IF 2 * r > d THEN q + 1
        ELSE IF q >= 0 THEN q + 1 ELSE q

\* variant: no price guard, every row is divided and rounded
optimize_shares_raises_Unguarded(ps, tvs) ==
    \E i \in 1..Min(Len(ps), Len(tvs)) : ~FGt0(ps[i]) \/ IsNaN(tvs[i])

\* int(round(target / price)) raises ValueError on a missing quotient; the
\* quotient is only formed for a price > 0
optimize_shares_raises(ps, tvs) ==
    \E i \in 1..Min(Len(ps), Len(tvs)) : FGt0(ps[i]) /\ IsNaN(tvs[i])

\* variant: the share count with ties rounded away from zero
ShareCount_HalfAway(price, target) == RoundHalfAway(Val(target), Hundred * Val(price))

\* int(round(target / price)) for one holding; target in hundredths of a
\* currency unit, price in whole units
ShareCount(price, target) == RoundHalfEven(Val(target), Hundred * Val(price))

optimize_shares(ps, tvs) ==
    [i \in 1..Min(Len(ps), Len(tvs)) |->
        IF FGt0(ps[i]) THEN ShareCount(ps[i], tvs[i]) ELSE 0]

\* -------------------------------------------- reorder_rebalanced_columns
column_order ==
    << "Ticker", "Shares Held", "Current Price (per share)",
       "Current Weight (%)", "Current Value", "Target Weight (%)",
       "Target Value", "Target Shares", "Target Value (Actual)",
       "Difference", "Action", "Shares to Buy/Sell", "Real Weight (%)" >>

\* variant: only the canonical columns are selected, as the table editor does
reorder_rebalanced_columns_Available(cols) ==
    SelectSeq(column_order, LAMBDA c : c \in Range(cols))

reorder_rebalanced_columns(cols) ==
    LET available == SelectSeq(column_order, LAMBDA c : c \in Range(cols))
        remaining == SelectSeq(cols, LAMBDA c : c \notin Range(available))
    IN  available \o remaining

\* ---------------------------------------- calculate_rebalancing_metrics
\* variant: the capital is added once per row
new_total_value_PerRow(d, capital) ==
    SumSkipNa(Column(d, "Current Value")) + capital * Len(d)

new_total_value(d, capital) == SumSkipNa(Column(d, "Current Value")) + capital

\* variant: the target is the gap to the current value
TargetValue_Gap(d, capital) ==
    [i \in DOMAIN d |->
        F(d[i]["Target Weight (%)"] * new_total_value(d, capital)
            - (IF IsNaN(d[i]["Current Value"]) THEN 0
               ELSE Hundred * Val(d[i]["Current Value"])))]

\* df["Target Weight (%)"] / 100.0 * new_total_value, in hundredths
TargetValue(d, capital) ==
    [i \in DOMAIN d |-> F(d[i]["Target Weight (%)"] * new_total_value(d, capital))]

TargetValueActual(d, ts) ==
    [i \in DOMAIN d |-> FMul(F(ts[i]), d[i]["Current Price (per share)"])]

Difference(d, tva) ==
    [i \in DOMAIN d |-> FSub(tva[i], d[i]["Current Value"])]

\* variant: the two trade directions swapped
ActionOf_Swapped(x) == IF FGt0(x) THEN "Sell" ELSE IF FLt0(x) THEN "Buy" ELSE "Hold"

\* lambda x: "Buy" if x > 0 else ("Sell" if x < 0 else "Hold")
ActionOf(x) == IF FGt0(x) THEN "Buy" ELSE IF FLt0(x) THEN "Sell" ELSE "Hold"

\* variant: the subtraction reversed
SharesToTrade_Reversed(d, ts) == [i \in DOMAIN d |-> d[i]["Shares Held"] - ts[i]]

\* df["Target Shares"] - df["Shares Held"]
SharesToTrade(d, ts) == [i \in DOMAIN d |-> ts[i] - d[i]["Shares Held"]]

RealWeight(tva, total_rebalanced_value) ==
    IF total_rebalanced_value > 0
    THEN [i \in DOMAIN tva |-> WeightPct(tva[i], total_rebalanced_value)]
    ELSE [i \in DOMAIN tva |-> F(0)]

RebalancedTable(d, capital) ==
    LET tv   == TargetValue(d, capital)
        ts   == optimize_shares(Column(d, "Current Price (per share)"), tv)
        tva  == TargetValueActual(d, ts)
        diff == Difference(d, tva)
        d1   == SetColumn(d, "Target Value", tv)
        d2   == SetColumn(d1, "Target Shares", ts)
        d3   == SetColumn(d2, "Target Value (Actual)", tva)
        d4   == SetColumn(d3, "Difference", diff)
        d5   == SetColumn(d4, "Action", [i \in DOMAIN d |-> ActionOf(diff[i])])
        d6   == SetColumn(d5, "Shares to Buy/Sell", SharesToTrade(d, ts))
    IN  SetColumn(d6, "Real Weight (%)", RealWeight(tva, SumSkipNa(tva)))

RebalanceColumns ==
    << "Target Value", "Target Shares", "Target Value (Actual)", "Difference",
       "Action", "Shares to Buy/Sell", "Real Weight (%)" >>

RECURSIVE AddColumnNames(_, _)
AddColumnNames(cols, new) ==
    IF Len(new) = 0 THEN cols
    ELSE AddColumnNames(AddColumnName(cols, Head(new)), Tail(new))

\* ----------------------------------------------- validate_portfolio_data
required_columns == << "Ticker", "Shares Held", "Target Weight (%)" >>

Message(text, arg) == << text, arg >>

\* variant: the first failing check returns
validate_portfolio_data_ShortCircuit(d, cols) ==
    LET missing_columns == SelectSeq(required_columns, LAMBDA c : c \notin Range(cols))
    IN  IF missing_columns # << >>
        THEN << Message("Missing required columns: ", missing_columns) >>
        ELSE IF \E i \in DOMAIN d : d[i]["Shares Held"] < 0
        THEN << Message("Shares held cannot be negative", << >>) >>
        ELSE IF \E i \in DOMAIN d : d[i]["Target Weight (%)"] < 0
        THEN << Message("Target weights cannot be negative", << >>) >>
        ELSE IF \E i \in DOMAIN d : IsNaN(d[i]["Ticker"]) \/ Val(d[i]["Ticker"]) = ""
        THEN << Message("Ticker symbols cannot be empty", << >>) >>
        ELSE << >>

validate_portfolio_data(d, cols) ==
    LET missing_columns == SelectSeq(required_columns, LAMBDA c : c \notin Range(cols))
        e1 == IF missing_columns # << >>
              THEN << Message("Missing required columns: ", missing_columns) >>
              ELSE << >>
        e2 == IF "Shares Held" \in Range(cols)
                 /\ \E i \in DOMAIN d : d[i]["Shares Held"] < 0
              THEN << Message("Shares held cannot be negative", << >>) >>
              ELSE << >>
        e3 == IF "Target Weight (%)" \in Range(cols)
                 /\ \E i \in DOMAIN d : d[i]["Target Weight (%)"] < 0
              THEN << Message("Target weights cannot be negative", << >>) >>
              ELSE << >>
        e4 == IF "Ticker" \in Range(cols)
                 /\ \E i \in DOMAIN d :
                        IsNaN(d[i]["Ticker"]) \/ Val(d[i]["Ticker"]) = ""
              THEN << Message("Ticker symbols cannot be empty", << >>) >>
              ELSE << >>
    IN  e1 \o e2 \o e3 \o e4

\* ------------------------------------------------------------- inputs
DEFAULT_TICKERS == << "TCS.NS", "INFY.NS", "HDFC.NS" >>

TickerOf(i) == IF i \in DOMAIN DEFAULT_TICKERS THEN DEFAULT_TICKERS[i] ELSE "OTHER.NS"

Row(t, s, w, p) ==
    ("Ticker" :> t) @@ ("Shares Held" :> s) @@ ("Target Weight (%)" :> w)
        @@ ("Current Price (per share)" :> p)

PricedColumns ==
    << "Ticker", "Shares Held", "Target Weight (%)", "Current Price (per share)" >>

SharesSet == { 10, 20 }
WeightSet == { -10, 25, 50 }
PriceSet  == { NaN, F(0), F(50) }
CapitalSet == { 0, 1000 }

\* a priced holdings table of n rows
Tables(n) ==
    { [i \in 1..n |-> Row(F(TickerOf(i)), c[i][1], c[i][2], c[i][3])] :
        c \in [1..n -> SharesSet \X WeightSet \X PriceSet] }

\* the default portfolio with the prices 100, 50, 80
Fixture ==
    << Row(F("TCS.NS"), 10, 25, F(100)),
       Row(F("INFY.NS"), 20, 50, F(50)),
       Row(F("HDFC.NS"), 12, 25, F(80)) >>

\* arguments of optimize_shares: prices, and target values in hundredths
PriceArgs  == { NaN, F(-5), F(0), F(50), F(80) }
TargetArgs == { F(-12500), F(0), F(12500), F(17500), F(74000) }

\* tables handed to the validator: any of the required columns may be absent
TickerCells == { F("TCS.NS"), F(""), NaN }
SharesCells == { -5, 10 }
WeightCells == { -10, 25 }

Restrict(r, S) == [k \in S |-> r[k]]

ColumnChoices ==
    { SelectSeq(required_columns, LAMBDA c : c \in S) :
        S \in SUBSET Range(required_columns) }

UserTables(n) ==
    { [i \in 1..n |->
          ("Ticker" :> c[i][1]) @@ ("Shares Held" :> c[i][2])
              @@ ("Target Weight (%)" :> c[i][3])] :
        c \in [1..n -> TickerCells \X SharesCells \X WeightCells] }

\* no file content
NoFile == [header |-> << >>, rows |-> << >>]

NoCalls ==
    /\ ret = << >> /\ calls = 0 /\ additional_capital = NaN /\ out_columns = << >>
    /\ last_call = "" /\ raised = "" /\ errors = << >> /\ shares = << >>
    /\ loaded = << >> /\ events = << >> /\ fetches = 0 /\ updates = 0

\* no file and an empty price cache, as after __init__ without a save file
NoApp == csv_file = NoFile /\ price_cache = << >>

Init ==
    /\ df \in (UNION { Tables(n) : n \in 0..MaxRows }) \cup { Fixture }
    /\ columns = PricedColumns
    /\ prices = << >> /\ target_values = << >>
    /\ NoCalls
    /\ NoApp

\* ------------------------------------------------------------- actions
CalculatePortfolioMetrics ==
    /\ calls < MaxCalls
    /\ df' = MetricsTable(df)
    /\ columns' = AddColumnNames(columns, << "Current Value", "Current Weight (%)" >>)
    /\ ret' = MetricsReturn(df)
    /\ calls' = calls + 1
    /\ last_call' = "calculate_portfolio_metrics"
    /\ raised' = ""
    /\ UNCHANGED << additional_capital, out_columns, errors, prices, target_values,
                    shares >>
    /\ UNCHANGED appVars

\* the effect of calculate_rebalancing_metrics(df, capital) on the table:
\* df["Current Value"] raises KeyError on a table the metrics were never
\* computed on; an exception of optimize_shares leaves the Target Value
\* column, which is assigned before the call, in the table
RebalancingMetrics(capital) ==
    IF "Current Value" \notin Range(columns)
    THEN /\ raised' = "KeyError"
         /\ UNCHANGED << df, columns, additional_capital, out_columns >>
    ELSE IF optimize_shares_raises(Column(df, "Current Price (per share)"),
                                   TargetValue(df, capital))
    THEN /\ raised' = "ValueError"
         /\ df' = SetColumn(df, "Target Value", TargetValue(df, capital))
         /\ columns' = AddColumnName(columns, "Target Value")
         /\ UNCHANGED << additional_capital, out_columns >>
    ELSE /\ df' = RebalancedTable(df, capital)
         /\ columns' = AddColumnNames(columns, RebalanceColumns)
         /\ additional_capital' = F(capital)
         /\ out_columns' = reorder_rebalanced_columns(columns')
         /\ raised' = ""

CalculateRebalancingMetrics(capital) ==
    /\ last_call' = "calculate_rebalancing_metrics"
    /\ RebalancingMetrics(capital)
    /\ UNCHANGED << ret, calls, errors, prices, target_values, shares >>
    /\ UNCHANGED appVars

Next ==
    \/ CalculatePortfolioMetrics
    \/ \E capital \in CapitalSet : CalculateRebalancingMetrics(capital)

Spec == Init /\ [][Next]_vars

\* ------------------------------------- optimize_shares as a pure function
InitOptimize ==
    /\ \E n \in 0..MaxRows :
          /\ prices \in [1..n -> PriceArgs]
          /\ target_values \in [1..n -> TargetArgs]
    /\ df = << >> /\ columns = << >>
    /\ NoCalls
    /\ NoApp

OptimizeShares ==
    /\ last_call = ""
    /\ last_call' = "optimize_shares"
    /\ IF optimize_shares_raises(prices, target_values)
       THEN raised' = "ValueError" /\ UNCHANGED shares
       ELSE raised' = "" /\ shares' = optimize_shares(prices, target_values)
    /\ UNCHANGED << df, columns, ret, calls, additional_capital, out_columns,
                    errors, prices, target_values >>
    /\ UNCHANGED appVars

NextOptimize == OptimizeShares

SpecOptimize == InitOptimize /\ [][NextOptimize]_vars

\* ----------------------------- validate_portfolio_data as a pure function
InitValidate ==
    /\ columns \in ColumnChoices
    /\ \E n \in 0..MaxRows :
          df \in { [i \in 1..n |-> Restrict(t[i], Range(columns))] : t \in UserTables(n) }
    /\ prices = << >> /\ target_values = << >>
    /\ NoCalls
    /\ NoApp

ValidatePortfolioData ==
    /\ last_call = ""
    /\ last_call' = "validate_portfolio_data"
    /\ errors' = validate_portfolio_data(df, columns)
    /\ raised' = ""
    /\ UNCHANGED << df, columns, ret, calls, additional_capital, out_columns,
                    prices, target_values, shares >>
    /\ UNCHANGED appVars

NextValidate == ValidatePortfolioData

SpecValidate == InitValidate /\ [][NextValidate]_vars

\* ------------------ calculate_rebalancing_metrics on any column layout
\* columns the engine reads, and columns a table may or may not carry
EngineColumns ==
    { "Shares Held", "Target Weight (%)", "Current Price (per share)", "Current Value" }
OptionalColumns == { "Ticker", "Current Weight (%)", "Sector", "Notes" }

\* one enriched holding with every column a layout may name
WideRow ==
    ("Ticker" :> F("TCS.NS")) @@ ("Shares Held" :> 10) @@ ("Target Weight (%)" :> 25)
        @@ ("Current Price (per share)" :> F(50)) @@ ("Current Value" :> F(500))
        @@ ("Current Weight (%)" :> F(10000)) @@ ("Sector" :> "IT") @@ ("Notes" :> "-")

\* every order of the engine's columns and at most two of the others
ColumnLayouts ==
    UNION { { l \in [1..Cardinality(EngineColumns \cup T) -> EngineColumns \cup T] :
                \A i, j \in DOMAIN l : i # j => l[i] # l[j] } :
            T \in { T \in SUBSET OptionalColumns : Cardinality(T) <= 2 } }

InitColumns ==
    /\ columns \in ColumnLayouts
    /\ df = << Restrict(WideRow, Range(columns)) >>
    /\ prices = << >> /\ target_values = << >>
    /\ NoCalls
    /\ NoApp

NextColumns == \E capital \in CapitalSet : CalculateRebalancingMetrics(capital)

SpecColumns == InitColumns /\ [][NextColumns]_vars

\* ------------------------------- render_download_button, read_portfolio_csv
\* Text in a CSV file is a sequence of tokens, " " being white space, so that
\* str.strip can act on it: " TCS.NS" is << " ", "TCS.NS" >>, "" is << >>.
\* A numeric field is held as the number its decimal text denotes.
T(name) == << name >>

RECURSIVE StripLeft(_)
StripLeft(t) == IF t # << >> /\ Head(t) = " " THEN StripLeft(Tail(t)) ELSE t

RECURSIVE StripRight(_)
StripRight(t) ==
    IF t # << >> /\ t[Len(t)] = " " THEN StripRight(SubSeq(t, 1, Len(t) - 1)) ELSE t

\* str.strip
Strip(t) == StripRight(StripLeft(t))

\* to_csv writes a missing cell and the empty string as an empty field
TextField(cell) == IF IsNaN(cell) THEN << >> ELSE Val(cell)

\* variant: the state file keeps the shares held before the rebalancing
DownloadCsv_SharesHeld(d) ==
    [ header |-> << T("Ticker"), T("Shares Held"), T("Target Weight (%)") >>,
      rows   |-> [i \in DOMAIN d |->
                    << TextField(d[i]["Ticker"]), d[i]["Shares Held"],
                       d[i]["Target Weight (%)"] >>] ]

\* state_df.to_csv(index=False): Shares Held is the Target Shares column
DownloadCsv(d) ==
    [ header |-> << T("Ticker"), T("Shares Held"), T("Target Weight (%)") >>,
      rows   |-> [i \in DOMAIN d |->
                    << TextField(d[i]["Ticker"]), d[i]["Target Shares"],
                       d[i]["Target Weight (%)"] >>] ]

expected_columns == << T("Ticker"), T("Shares Held"), T("Target Weight (%)") >>

\* variant: the stripped names are compared as a set, in any order
SchemaMismatch_AnyOrder(header) ==
    { Strip(header[i]) : i \in DOMAIN header } # Range(expected_columns)

\* _validate_csv_columns: the stripped names must be the expected list
SchemaMismatch(header) ==
    [i \in DOMAIN header |-> Strip(header[i])] # expected_columns

\* the exception read_portfolio_csv raises on a file, "" when it returns:
\* read_csv fails on a file without a header line, the schema check raises
\* ValueError, and df["Ticker"] etc. raise KeyError for a name that passed
\* the check only because it was stripped for the comparison
read_portfolio_csv_raises(file) ==
    IF file.header = << >> THEN "EmptyDataError"
    ELSE IF SchemaMismatch(file.header) THEN "ValueError"
    ELSE IF \E i \in DOMAIN expected_columns :
                expected_columns[i] \notin Range(file.header) THEN "KeyError"
    ELSE ""

\* read_csv reads an empty field as missing; astype(str) makes it "nan"
ParsedTicker(field) == IF field = << >> THEN T("nan") ELSE Strip(field)

\* the table read_portfolio_csv returns for a file it accepts
read_portfolio_csv(file) ==
    [i \in DOMAIN file.rows |->
        ("Ticker" :> F(ParsedTicker(file.rows[i][1])))
            @@ ("Shares Held" :> file.rows[i][2])
            @@ ("Target Weight (%)" :> file.rows[i][3])]

\* allocation tables: the columns the download reads, and Shares Held
AllocationColumns == << "Ticker", "Shares Held", "Target Weight (%)", "Target Shares" >>
AllocationTickers == { F(T("TCS.NS")), F(<< " ", "INFY.NS" >>), NaN }
AllocationShares  == { 0, 7 }
AllocationWeights == { 25, 50 }

Allocations(n) ==
    { [i \in 1..n |->
          ("Ticker" :> c[i][1]) @@ ("Shares Held" :> 10)
              @@ ("Target Weight (%)" :> c[i][3]) @@ ("Target Shares" :> c[i][2])] :
        c \in [1..n -> AllocationTickers \X AllocationShares \X AllocationWeights] }

\* header lines of uploaded files: the triplet, its other orders, a padded
\* name, a renamed, a missing and an extra column
Perm3 == { << 1, 2, 3 >>, << 1, 3, 2 >>, << 2, 1, 3 >>, << 2, 3, 1 >>,
           << 3, 1, 2 >>, << 3, 2, 1 >> }

UploadHeaders ==
    { [i \in 1..3 |-> expected_columns[p[i]]] : p \in Perm3 }
    \cup { [expected_columns EXCEPT ![k] = << " " >> \o @] : k \in 1..3 }
    \cup { [expected_columns EXCEPT ![k] = @ \o << " " >>] : k \in 1..3 }
    \cup { [expected_columns EXCEPT ![2] = T("Target Shares")],
           SubSeq(expected_columns, 1, 2),
           SubSeq(expected_columns, 2, 3),
           expected_columns \o << T("Target Shares") >> }

InitCsv ==
    /\ \E n \in 0..MaxRows : df \in Allocations(n)
    /\ columns = AllocationColumns
    /\ prices = << >> /\ target_values = << >>
    /\ NoCalls
    /\ NoApp

RenderDownloadButton ==
    /\ last_call = ""
    /\ last_call' = "render_download_button"
    /\ csv_file' = DownloadCsv(df)
    /\ raised' = ""
    /\ UNCHANGED << df, columns, ret, calls, additional_capital, out_columns,
                    errors, prices, target_values, shares, loaded, events,
                    price_cache, fetches, updates >>

\* the upload is the downloaded file, its header line possibly edited
ReadPortfolioCsv(header) ==
    /\ last_call = "render_download_button"
    /\ last_call' = "read_portfolio_csv"
    /\ csv_file' = [csv_file EXCEPT !.header = header]
    /\ raised' = read_portfolio_csv_raises(csv_file')
    /\ loaded' = IF raised' = "" THEN read_portfolio_csv(csv_file') ELSE loaded
    /\ UNCHANGED << df, columns, ret, calls, additional_capital, out_columns,
                    errors, prices, target_values, shares, events,
                    price_cache, fetches, updates >>

NextCsv ==
    \/ RenderDownloadButton
    \/ \E header \in UploadHeaders : ReadPortfolioCsv(header)

SpecCsv == InitCsv /\ [][NextCsv]_vars

\* -------------------------- PortfolioRebalancerApp.update_portfolio_prices
\* The price cache is a function from ticker text to price; the empty dict of
\* __init__ is the function with the empty domain.
QuoteSet == { 50, 80 }

\* what the price service may answer for a list of tickers: a price for each
\* ticker it could look up, no entry for a ticker whose lookup failed
get_portfolio_prices(tickers) ==
    UNION { [S -> QuoteSet] : S \in SUBSET { Val(tickers[i]) : i \in DOMAIN tickers } }

\* if not self._price_cache
ShouldFetch(cache) == DOMAIN cache = { }

\* self._price_cache.get(ticker, np.nan)
CacheGet(cache, ticker) ==
    IF Val(ticker) \in DOMAIN cache THEN F(cache[Val(ticker)]) ELSE NaN

\* the tables the editor hands over between two runs
PortfolioTables(n) ==
    { [i \in 1..n |->
          ("Ticker" :> F(t[i])) @@ ("Shares Held" :> 10) @@ ("Target Weight (%)" :> 50)] :
        t \in [1..n -> { "TCS.NS", "INFY.NS" }] }

InitPrices ==
    /\ \E n \in 0..MaxRows : df \in PortfolioTables(n)
    /\ columns = required_columns
    /\ prices = << >> /\ target_values = << >>
    /\ NoCalls
    /\ NoApp

\* one run of the page: the edited table is copied and priced
UpdatePortfolioPrices(table, response) ==
    /\ updates < MaxUpdates
    /\ updates' = updates + 1
    /\ last_call' = "update_portfolio_prices"
    /\ IF ShouldFetch(price_cache)
       THEN price_cache' = response /\ fetches' = fetches + 1
       ELSE UNCHANGED << price_cache, fetches >>
    /\ df' = SetColumn(table, "Current Price (per share)",
                       [i \in DOMAIN table |-> CacheGet(price_cache', table[i]["Ticker"])])
    /\ columns' = AddColumnName(columns, "Current Price (per share)")
    /\ raised' = ""
    /\ UNCHANGED << ret, calls, additional_capital, out_columns, errors, prices,
                    target_values, shares, csv_file, loaded, events >>

NextPrices ==
    \E n \in 0..MaxRows : \E table \in PortfolioTables(n) :
        \E response \in get_portfolio_prices(Column(table, "Ticker")) :
            UpdatePortfolioPrices(table, response)

SpecPrices == InitPrices /\ [][NextPrices]_vars

\* ----------------------------- PortfolioRebalancerApp._perform_rebalancing
\* variant: the errors are displayed and the flow goes on
HaltsOnErrors_Never(errs) == FALSE

\* if errors: ... return
HaltsOnErrors(errs) == errs # << >>

user_columns == << "Ticker", "Shares Held", "Target Weight (%)" >>

\* save_portfolio_data: the core columns of the table, written as CSV; a
\* ticker that passed the validation is a non-empty text
SaveCsv(d, cols) ==
    [ header |-> [k \in DOMAIN cols |-> T(cols[k])],
      rows   |-> [i \in DOMAIN d |->
                    [k \in DOMAIN cols |->
                        IF cols[k] = "Ticker" THEN T(Val(d[i][cols[k]]))
                        ELSE d[i][cols[k]]]] ]

\* one entry of the log of the handler's calls
Event(name, arg) == << name, arg >>

\* the calls of the handler after the save, given what the computation raised
AfterSave(exception) ==
    << Event("st.success", << >>), Event("calculate_rebalancing_metrics", << >>) >>
        \o (IF exception # ""
            THEN << Event("render_error_message", Message(exception, << >>)) >>
            ELSE << Event("render_rebalanced_portfolio", << >>),
                    Event("render_download_button", << >>),
                    Event("render_suggestion_message", << >>) >>)

HandlerTickers == { F("TCS.NS"), F("") }
HandlerPrices  == { NaN, F(50) }

\* the tables the handler is given: priced and enriched by the metrics
HandlerTables(n) ==
    { MetricsTable([i \in 1..n |-> Row(c[i][1], c[i][2], c[i][3], c[i][4])]) :
        c \in [1..n -> HandlerTickers \X SharesCells \X WeightCells \X HandlerPrices] }

\* the file of an earlier save
EarlierSave == SaveCsv(<< Row(F("HDFC.NS"), 12, 25, NaN) >>, user_columns)

InitRebalance ==
    /\ \E n \in 0..MaxRows : df \in HandlerTables(n)
    /\ columns = PricedColumns \o << "Current Value", "Current Weight (%)" >>
    /\ prices = << >> /\ target_values = << >>
    /\ NoCalls
    /\ csv_file \in { NoFile, EarlierSave }
    /\ price_cache = << >>

PerformRebalancing(capital) ==
    /\ last_call = ""
    /\ last_call' = "_perform_rebalancing"
    /\ errors' = validate_portfolio_data(df, columns)
    /\ IF HaltsOnErrors(errors')
       THEN /\ events' = [k \in DOMAIN errors' |->
                            Event("render_error_message", errors'[k])]
            /\ UNCHANGED << df, columns, additional_capital, out_columns,
                            raised, csv_file >>
       ELSE /\ csv_file' = SaveCsv(df, user_columns)
            /\ RebalancingMetrics(capital)
            /\ events' = << Event("save_portfolio_data", << >>) >> \o AfterSave(raised')
    /\ UNCHANGED << ret, calls, prices, target_values, shares, loaded,
                    price_cache, fetches, updates >>

NextRebalance == \E capital \in CapitalSet : PerformRebalancing(capital)

SpecRebalance == InitRebalance /\ [][NextRebalance]_vars

\* ------------------------------------------------------------ properties
Rows == DOMAIN df
\* the last calculate_rebalancing_metrics call on the table returned
Rebalanced == "Real Weight (%)" \in Range(columns)
Capital == Val(additional_capital)
TotalCurrentValue == SumSkipNa(Column(df, "Current Value"))

\* C1: every row's Target Value is target weight / 100 * (sum of Current Value
\* + additional capital), the capital counted once, and the Target Values sum
\* to (sum of target weights) / 100 * that post-injection total (no
\* renormalisation).  Target Value is held in hundredths.
C1_TargetValue ==
    Rebalanced =>
        /\ \A i \in Rows :
              df[i]["Target Value"]
                  = F(df[i]["Target Weight (%)"] * (TotalCurrentValue + Capital))
        /\ SumSkipNa(Column(df, "Target Value"))
              = SumInt(Column(df, "Target Weight (%)")) * (TotalCurrentValue + Capital)

C1_Witness ==
    /\ Rebalanced /\ Capital = 1000 /\ Len(df) = 2
    /\ TotalCurrentValue > 0
    /\ SumInt(Column(df, "Target Weight (%)")) = 75
    /\ SumSkipNa(Column(df, "Target Value")) = 75 * (TotalCurrentValue + 1000)

C4_Derived(i) ==
    /\ df[i]["Target Value (Actual)"]
          = FMul(F(df[i]["Target Shares"]), df[i]["Current Price (per share)"])
    /\ df[i]["Difference"]
          = FSub(df[i]["Target Value (Actual)"], df[i]["Current Value"])
    /\ df[i]["Shares to Buy/Sell"] = df[i]["Target Shares"] - df[i]["Shares Held"]
    /\ df[i]["Action"] \in { "Buy", "Sell", "Hold" }
    /\ df[i]["Action"] = "Buy" <=> FGt0(df[i]["Difference"])
    /\ df[i]["Action"] = "Sell" <=> FLt0(df[i]["Difference"])

\* C4 as stated: ... and Action = Hold iff Difference = 0.
C4_Original ==
    Rebalanced =>
        \A i \in Rows :
            /\ C4_Derived(i)
            /\ df[i]["Action"] = "Hold" <=> df[i]["Difference"] = F(0)

\* C4 amended: Target Value (Actual) = Target Shares * price, Difference =
\* Target Value (Actual) - Current Value, Shares to Buy/Sell = Target Shares -
\* Shares Held, Action is one of Buy, Sell, Hold with Buy iff Difference > 0,
\* Sell iff Difference < 0, and Hold iff Difference is 0 or missing (the row
\* has no price).
C4_Actions ==
    Rebalanced =>
        \A i \in Rows :
            /\ C4_Derived(i)
            /\ df[i]["Action"] = "Hold"
                  <=> (df[i]["Difference"] = F(0) \/ IsNaN(df[i]["Difference"]))

C4_Witness ==
    /\ Rebalanced
    /\ \E i \in Rows : df[i]["Action"] = "Buy" /\ df[i]["Shares to Buy/Sell"] > 0
    /\ \E i \in Rows : df[i]["Action"] = "Hold" /\ IsNaN(df[i]["Difference"])

\* C2: optimize_shares returns one entry per input row, in row order; for a
\* price > 0 the entry is an integer within 1/2 of target / price, the even
\* neighbour on an exact tie (price 50, target 125 gives 2); for a price <= 0
\* or a missing price it is 0.  Targets are in hundredths.
C2_OptimizeShares ==
    last_call = "optimize_shares" =>
        /\ raised = ""
        /\ Len(shares) = Len(prices)
        /\ \A i \in DOMAIN prices :
              IF ~IsNaN(prices[i]) /\ Val(prices[i]) > 0
              THEN LET unit == Hundred * Val(prices[i])
                       gap  == shares[i] * unit - Val(target_values[i])
                       dist == IF gap >= 0 THEN gap ELSE -gap
                   IN  /\ shares[i] \in Int
                       /\ 2 * dist <= unit
                       /\ 2 * dist = unit => shares[i] % 2 = 0
                       /\ (prices[i] = F(50) /\ target_values[i] = F(12500))
                             => shares[i] = 2
              ELSE shares[i] = 0

C2_Witness ==
    /\ last_call = "optimize_shares" /\ Len(shares) = 2
    /\ prices[1] = F(50) /\ target_values[1] = F(12500) /\ shares[1] = 2
    /\ IsNaN(prices[2]) /\ target_values[2] = F(74000) /\ shares[2] = 0

\* shares held * price of the priced rows, 0 for the others
PricedValues ==
    [i \in Rows |->
        IF IsNaN(df[i]["Current Price (per share)"]) THEN 0
        ELSE df[i]["Shares Held"] * Val(df[i]["Current Price (per share)"])]

PricedTotal == SumInt(PricedValues)

Unpriced == { i \in Rows : IsNaN(df[i]["Current Price (per share)"]) }
OneUnpriced == Cardinality(Unpriced) = 1 /\ Len(df) >= 2
ZeroOrMissing(x) == IsNaN(x) \/ x = F(0)

\* Target Shares * price of the priced rows, 0 for the others
PricedTargets ==
    [i \in Rows |->
        IF IsNaN(df[i]["Current Price (per share)"]) THEN 0
        ELSE df[i]["Target Shares"] * Val(df[i]["Current Price (per share)"])]

\* what both C5 statements say besides the unpriced row's Target Value
C5_Common ==
    /\ \A i \in Unpriced :
          /\ ZeroOrMissing(df[i]["Current Value"])
          /\ df[i]["Target Shares"] = 0
          /\ ZeroOrMissing(df[i]["Target Value (Actual)"])
    /\ ret[1] = PricedTotal
    /\ SumSkipNa(Column(df, "Target Value (Actual)")) = SumInt(PricedTargets)
    /\ SumInt(PricedTargets) > 0 =>
          \A i \in Rows \ Unpriced :
              df[i]["Real Weight (%)"]
                  = F(Round2(PricedTargets[i] * Hundred, SumInt(PricedTargets)))

PipelineRan == calls >= 1 /\ last_call = "calculate_rebalancing_metrics"

\* C5 as stated: with one unpriced row the pipeline does not raise, and the
\* unpriced row's current value, target value and target shares are all zero
\* or missing; the totals are those of the priced rows.
C5_Original ==
    (PipelineRan /\ OneUnpriced) =>
        /\ raised = ""
        /\ C5_Common
        /\ \A i \in Unpriced : ZeroOrMissing(df[i]["Target Value"])

\* C5 amended: with one unpriced row the pipeline does not raise; the unpriced
\* row's Current Value and Target Value (Actual) are missing and its Target
\* Shares is 0, total_value and the post-trade total are the sums over the
\* priced rows, but the row's Target Value is still its target weight / 100 *
\* post-injection total.
C5_MissingPrice ==
    (PipelineRan /\ OneUnpriced) =>
        /\ raised = ""
        /\ C5_Common
        /\ \A i \in Unpriced :
              df[i]["Target Value"]
                  = F(df[i]["Target Weight (%)"] * (PricedTotal + Capital))

C5_Witness ==
    /\ PipelineRan /\ OneUnpriced /\ raised = ""
    /\ ret[1] > 0
    /\ \E i \in Unpriced : FGt0(df[i]["Target Value"]) /\ df[i]["Target Shares"] = 0

\* C6: when the total current value is 0, calculate_portfolio_metrics returns
\* total_value 0 and Current Weight (%) is exactly 0 on every row; when the
\* sum of Target Value (Actual) is 0, Real Weight (%) is exactly 0 on every
\* row; no call raises and no weight is missing.
C6_ZeroGuard ==
    /\ (calls >= 1 /\ PricedTotal = 0) =>
          /\ raised = ""
          /\ ret[1] = 0
          /\ \A i \in Rows : df[i]["Current Weight (%)"] = F(0)
    /\ (Rebalanced /\ SumInt(PricedTargets) = 0) =>
          /\ raised = ""
          /\ \A i \in Rows : df[i]["Real Weight (%)"] = F(0)

C6_Witness ==
    /\ Rebalanced /\ Len(df) = 2 /\ ret[1] = 0
    /\ \A i \in Rows : df[i]["Current Price (per share)"] = F(0)
    /\ \A i \in Rows : df[i]["Current Weight (%)"] = F(0)
                         /\ df[i]["Real Weight (%)"] = F(0)

\* the table is the fixture (TCS,10,25%), (INFY,20,50%), (HDFC,12,25%) at
\* prices 100, 50, 80
IsFixture ==
    /\ Len(df) = 3
    /\ \A i \in Rows : \A c \in Range(PricedColumns) : df[i][c] = Fixture[i][c]

\* C8: on the fixture, current_value = [1000,1000,960] and total 2960; with
\* capital 0, target_value = [740,1480,740], target_shares = [7,30,9], action
\* = [Sell,Buy,Sell]; with capital 1000 the post-injection total is 3960,
\* target_value = [990,1980,990], target_shares = [10,40,12].
C8_Fixture ==
    IsFixture =>
        /\ calls >= 1 =>
              /\ Column(df, "Current Value") = << F(1000), F(1000), F(960) >>
              /\ ret[1] = 2960
        /\ (Rebalanced /\ Capital = 0) =>
              /\ Column(df, "Target Value") = << F(74000), F(148000), F(74000) >>
              /\ Column(df, "Target Shares") = << 7, 30, 9 >>
              /\ Column(df, "Action") = << "Sell", "Buy", "Sell" >>
        /\ (Rebalanced /\ Capital = 1000) =>
              /\ ret[1] + Capital = 3960
              /\ Column(df, "Target Value") = << F(99000), F(198000), F(99000) >>
              /\ Column(df, "Target Shares") = << 10, 40, 12 >>

C8_Witness ==
    /\ IsFixture /\ Rebalanced /\ Capital = 1000
    /\ Column(df, "Target Shares") = << 10, 40, 12 >>

\* C9: when total_value > 0 it is the sum of shares held * price, and the
\* rounded Current Weight (%) values sum to 100 within 0.005 per row (weights
\* in hundredths of a percent: within half a hundredth per row).
C9_WeightSum ==
    (calls >= 1 /\ ret[1] > 0) =>
        /\ ret[1] = PricedTotal
        /\ LET s == SumSkipNa(Column(df, "Current Weight (%)"))
               drift == IF s >= Hundred * Hundred THEN s - Hundred * Hundred
                        ELSE Hundred * Hundred - s
           IN  2 * drift <= Len(df)

\* the weights are not forced to sum to exactly 100
C9_Witness ==
    /\ calls >= 1 /\ ret[1] > 0
    /\ SumSkipNa(Column(df, "Current Weight (%)")) # Hundred * Hundred

\* C10: a further call of calculate_portfolio_metrics on the enriched table
\* returns the same triple and leaves the table as it is, and no call changes
\* Ticker, Shares Held, price or Target Weight.
C10_Idempotent ==
    [][ calls' = calls + 1 =>
          /\ Len(df') = Len(df)
          /\ \A i \in Rows : \A c \in Range(PricedColumns) : df'[i][c] = df[i][c]
          /\ calls >= 1 => (df' = df /\ columns' = columns /\ ret' = ret) ]_vars

C10_Witness ==
    /\ calls = 2 /\ last_call = "calculate_portfolio_metrics"
    /\ Len(df) = 2 /\ ret[1] > 0
    /\ \E i \in Rows : FGt0(df[i]["Current Weight (%)"])

\* the categories of validate_portfolio_data
HasColumn(c) == c \in Range(columns)
MissingColumns == SelectSeq(required_columns, LAMBDA c : ~HasColumn(c))
NegativeShares == HasColumn("Shares Held") /\ \E i \in Rows : df[i]["Shares Held"] < 0
NegativeWeight ==
    HasColumn("Target Weight (%)") /\ \E i \in Rows : df[i]["Target Weight (%)"] < 0
EmptyTicker ==
    HasColumn("Ticker") /\ \E i \in Rows : df[i]["Ticker"] \in { NaN, F("") }
Violations ==
    (IF MissingColumns # << >> THEN 1 ELSE 0) + (IF NegativeShares THEN 1 ELSE 0)
        + (IF NegativeWeight THEN 1 ELSE 0) + (IF EmptyTicker THEN 1 ELSE 0)
Reported(m) == \E j \in DOMAIN errors : errors[j] = m

C7_Messages ==
    last_call = "validate_portfolio_data" =>
        /\ raised = ""
        /\ MissingColumns # << >>
              <=> Reported(Message("Missing required columns: ", MissingColumns))
        /\ NegativeShares <=> Reported(Message("Shares held cannot be negative", << >>))
        /\ NegativeWeight <=> Reported(Message("Target weights cannot be negative", << >>))
        /\ EmptyTicker <=> Reported(Message("Ticker symbols cannot be empty", << >>))
        /\ Len(errors) = Violations
        /\ errors = << >> <=> Violations = 0
        /\ (/\ Len(df) = 1 /\ columns = required_columns
            /\ df[1]["Shares Held"] = -5 /\ df[1]["Target Weight (%)"] >= 0
            /\ df[1]["Ticker"] \notin { NaN, F("") })
              => errors = << Message("Shares held cannot be negative", << >>) >>

\* C7: validate_portfolio_data performs all four checks with no short-circuit:
\* the result holds exactly one message per violated category, is empty iff no
\* category is violated, a single row with shares_held -5 yields exactly
\* "Shares held cannot be negative", and the table is left unmodified.
C7_Validate ==
    /\ []C7_Messages
    /\ [][df' = df /\ columns' = columns]_vars

C7_Witness ==
    /\ last_call = "validate_portfolio_data"
    /\ Len(df) = 2 /\ columns = required_columns
    /\ Len(errors) = 3

\* position of a column in a column list
IndexIn(seq, c) == CHOOSE i \in DOMAIN seq : seq[i] = c
Canonical(c) == c \in Range(column_order)

\* C11: the returned table has the canonical columns that are present, in
\* the canonical sequence, followed by every other column in its original
\* relative order; its columns are a permutation of the table's columns.
C11_ColumnOrder ==
    (last_call = "calculate_rebalancing_metrics" /\ raised = "") =>
        /\ Len(out_columns) = Len(columns)
        /\ Range(out_columns) = Range(columns)
        /\ \A i, j \in DOMAIN out_columns :
              i < j =>
                /\ out_columns[i] # out_columns[j]
                /\ Canonical(out_columns[j]) => Canonical(out_columns[i])
                /\ (Canonical(out_columns[i]) /\ Canonical(out_columns[j]))
                      => IndexIn(column_order, out_columns[i])
                           < IndexIn(column_order, out_columns[j])
                /\ (~Canonical(out_columns[i]) /\ ~Canonical(out_columns[j]))
                      => IndexIn(columns, out_columns[i])
                           < IndexIn(columns, out_columns[j])

C11_Witness ==
    /\ last_call = "calculate_rebalancing_metrics" /\ raised = ""
    /\ columns[1] = "Notes" /\ columns[3] = "Sector"
    /\ "Ticker" \notin Range(columns)
    /\ out_columns[1] = "Shares Held"
    /\ out_columns[Len(out_columns) - 1] = "Notes"
    /\ out_columns[Len(out_columns)] = "Sector"

\* the three-column download was read back
Reloaded == last_call = "read_portfolio_csv" /\ raised = ""
PlainHeader == << << "Ticker" >>, << "Shares Held" >>, << "Target Weight (%)" >> >>

\* what both C12 statements say besides the reloaded tickers
C12_Common ==
    /\ last_call = "render_download_button" => csv_file.header = PlainHeader
    /\ (last_call = "read_portfolio_csv" /\ csv_file.header = PlainHeader) =>
          /\ raised = ""
          /\ Len(loaded) = Len(df)
          /\ \A i \in Rows :
                /\ DOMAIN loaded[i] = { "Ticker", "Shares Held", "Target Weight (%)" }
                /\ loaded[i]["Shares Held"] = df[i]["Target Shares"]
                /\ loaded[i]["Target Weight (%)"] = df[i]["Target Weight (%)"]
    /\ (last_call = "read_portfolio_csv" /\ csv_file.header # PlainHeader) =>
          raised # ""

\* C12 as stated: the download has exactly the three columns in order, is
\* accepted and read back with the same tickers and target weights and the
\* Target Shares as Shares Held; any other header is rejected.
C12_Original ==
    /\ C12_Common
    /\ Reloaded => \A i \in Rows : loaded[i]["Ticker"] = df[i]["Ticker"]

\* C12 amended: as stated, except that the tickers come back with their
\* surrounding white space stripped, and a missing or empty ticker comes back
\* as the text "nan".
C12_RoundTrip ==
    /\ C12_Common
    /\ Reloaded =>
          \A i \in Rows :
              loaded[i]["Ticker"]
                  = IF df[i]["Ticker"] \in { NaN, F(<< >>) } THEN F(<< "nan" >>)
                    ELSE F(Strip(Val(df[i]["Ticker"])))

C12_Witness ==
    /\ Reloaded /\ Len(df) = 2
    /\ df[1]["Ticker"] = F(<< " ", "INFY.NS" >>) /\ loaded[1]["Ticker"] = F(<< "INFY.NS" >>)
    /\ df[2]["Ticker"] = F(<< "TCS.NS" >>) /\ loaded[2]["Ticker"] = F(<< "TCS.NS" >>)
    /\ df[2]["Target Shares"] = 7 /\ loaded[2]["Shares Held"] = 7

\* C13: prices are fetched at most once per app instance: after the first
\* update_portfolio_prices call no later call, whatever the tickers, calls the
\* price service, and the cache contents never change.
C13_Original ==
    [][ /\ fetches' <= 1
        /\ updates >= 1 => (fetches' = fetches /\ price_cache' = price_cache) ]_vars

\* the handler's log names the call
Called(name) == \E k \in DOMAIN events : events[k][1] = name
Invalid == Violations > 0

\* C14: on a table with validation errors _perform_rebalancing displays every
\* message and calls neither save_portfolio_data nor
\* calculate_rebalancing_metrics, leaving the saved file and the table as
\* they were; on a valid table exactly the three user columns are saved, and
\* saved before the rebalancing is computed.
C14_HaltOrSave ==
    [][ last_call' = "_perform_rebalancing" =>
          IF Invalid
          THEN /\ csv_file' = csv_file /\ df' = df /\ columns' = columns
               /\ Len(events') = Violations
               /\ \A k \in DOMAIN events' : events'[k][1] = "render_error_message"
               /\ NegativeShares =>
                     \E k \in DOMAIN events' :
                         events'[k][2] = Message("Shares held cannot be negative", << >>)
               /\ NegativeWeight =>
                     \E k \in DOMAIN events' :
                         events'[k][2] = Message("Target weights cannot be negative", << >>)
               /\ EmptyTicker =>
                     \E k \in DOMAIN events' :
                         events'[k][2] = Message("Ticker symbols cannot be empty", << >>)
          ELSE /\ events'[1][1] = "save_portfolio_data"
               /\ \E k \in 2..Len(events') : events'[k][1] = "calculate_rebalancing_metrics"
               /\ \A k \in 2..Len(events') : events'[k][1] # "save_portfolio_data"
               /\ csv_file'.header = PlainHeader
               /\ Len(csv_file'.rows) = Len(df)
               /\ \A i \in Rows :
                     csv_file'.rows[i]
                         = << << Val(df[i]["Ticker"]) >>, df[i]["Shares Held"],
                              df[i]["Target Weight (%)"] >> ]_vars

\* two messages were displayed and the earlier save is still the file
C14_Witness ==
    /\ last_call = "_perform_rebalancing"
    /\ Len(df) = 2 /\ Len(events) = 2
    /\ events[1] = << "render_error_message", << "Shares held cannot be negative", << >> >> >>
    /\ ~Called("save_portfolio_data") /\ ~Called("calculate_rebalancing_metrics")
    /\ csv_file.rows = << << << "HDFC.NS" >>, 12, 25 >> >>
    /\ ~HasColumn("Target Value")

\* trade direction and trade size agree on row i
Agree(i) ==
    /\ df[i]["Action"] = "Buy" <=> df[i]["Shares to Buy/Sell"] > 0
    /\ df[i]["Action"] = "Sell" <=> df[i]["Shares to Buy/Sell"] < 0
    /\ df[i]["Action"] = "Hold" <=> df[i]["Shares to Buy/Sell"] = 0

\* C15 as stated: on every row of the rebalanced table Action = Buy iff
\* Shares to Buy/Sell > 0, Sell iff < 0, Hold iff = 0, for every table with
\* shares held >= 0 and every price, a zero or missing one included.
C15_Original ==
    (Rebalanced /\ \A i \in Rows : df[i]["Shares Held"] >= 0) =>
        \A i \in Rows : Agree(i)

\* C15 amended: direction and size agree on every row with a price > 0; on a
\* row with a zero or missing price the Action is Hold and Shares to Buy/Sell
\* is minus the shares held.
C15_PricedRows ==
    (Rebalanced /\ \A i \in Rows : df[i]["Shares Held"] >= 0) =>
        \A i \in Rows :
            /\ FGt0(df[i]["Current Price (per share)"]) => Agree(i)
            /\ df[i]["Current Price (per share)"] \in { NaN, F(0) } =>
                  /\ df[i]["Action"] = "Hold"
                  /\ df[i]["Shares to Buy/Sell"] = 0 - df[i]["Shares Held"]

C15_Witness ==
    /\ Rebalanced
    /\ \E i \in Rows :
          /\ FGt0(df[i]["Current Price (per share)"])
          /\ df[i]["Action"] = "Sell" /\ df[i]["Shares to Buy/Sell"] < 0
    /\ \E i \in Rows :
          /\ df[i]["Current Price (per share)"] = F(0) /\ df[i]["Shares Held"] = 10
          /\ df[i]["Action"] = "Hold" /\ df[i]["Shares to Buy/Sell"] = -10

====
